---- MODULE Spec2Model ----
(***************************************************************************)
(* The memoized Google Maps component of src/components/map.js, as given   *)
(* in the post "Google Maps + React Hooks": the render gate shouldUpdate   *)
(* passed to React.memo, and the script loader run by Map's useEffect.     *)
(*                                                                         *)
(* JavaScript values are records tagged by "kind".  An object passed as    *)
(* the options prop lives on a heap and is named by its address, so that   *)
(* two props may hold the same object and an in-place change is seen       *)
(* through both.                                                           *)
(***************************************************************************)
EXTENDS Integers, Sequences, FiniteSets, TLC

\* ----------------------------------------------------------------- bounds
\* options objects that exist on the heap
NumObjects == 2
\* Map instances that can be mounted during one page lifetime
NumViews == 2
\* renders (first renders and re-renders) during one page lifetime
MaxRenders == 2

\* ----------------------------------------------------------------- values
Addr == 1 .. NumObjects

\* a property that the object does not have
MissingV == [kind |-> "missing"]
NullV == [kind |-> "null"]
RefV(a) == [kind |-> "ref", addr |-> a]
StrV(s) == [kind |-> "string", str |-> s]
\* a closure: its source text and the values it captured
FnV(t, e) == [kind |-> "function", text |-> t, env |-> e]

\* onMount: addMarkers(links) is `map => {...}` closed over links
FnTexts == {"map => {...}", "map => {}"}
FnEnvs == {"linksA", "linksB"}
Closures == {FnV(t, e) : t \in FnTexts, e \in FnEnvs}

\* the fields of an options object: zoom, and the type tag the provider assigns
Zooms == {4, 5}
TypeTags == {"roadmap", "satellite"}
NoTag == "none"
OptionsObjects == [zoom : Zooms, mapTypeId : TypeTags \cup {NoTag}]
Heaps == [Addr -> OptionsObjects]

\* the props of Map, in the order the component destructures them
PropOrder == <<"options", "onMount", "className">>
PropNames == {"options", "onMount", "className"}

OptionsValues == {MissingV, NullV} \cup {RefV(a) : a \in Addr}
OnMountValues == {MissingV, StrV("map => {...}")} \cup Closures
ClassNameValues == {MissingV, StrV("map")}
AllProps == [options : OptionsValues, onMount : OnMountValues, className : ClassNameValues]

\* Map.defaultProps.options is one object, shared by every render
DefaultOptions == RefV(1)
defaultProps(p) ==
  IF p.options = MissingV THEN [p EXCEPT !.options = DefaultOptions] ELSE p

\* ----------------------------------------------------------------- lodash
isFunction(v) == v.kind = "function"

\* functions(object): the names of the own properties that are functions
functions(props) == SelectSeq(PropOrder, LAMBDA n : isFunction(props[n]))

Range(s) == {s[i] : i \in DOMAIN s}

\* omit(object, paths): the object without the named properties
omit(props, names) ==
  [n \in PropNames |-> IF n \in Range(names) THEN MissingV ELSE props[n]]

Keys(props) == {n \in PropNames : props[n] # MissingV}

\* isEqual on two values: objects by structure, everything else by identity
valueEqual(a, b, h) ==
  IF a.kind = "ref" /\ b.kind = "ref"
  THEN \/ a.addr = b.addr
       \/ /\ h[a.addr].zoom = h[b.addr].zoom
          /\ h[a.addr].mapTypeId = h[b.addr].mapTypeId
  ELSE a = b

\* isEqual(a, b): the same keys, and equal values under each
isEqual(a, b, h) ==
  /\ Keys(a) = Keys(b)
  /\ \A n \in Keys(a) : valueEqual(a[n], b[n], h)

\* value.toString() is defined unless value is undefined or null
hasToString(v) == v.kind \notin {"missing", "null"}
toString(v) == IF v.kind = "function" THEN v.text ELSE v.str

\* prevFuncs.every(fn => prevProps[fn].toString() === nextProps[fn].toString()):
\* in order, stopping at the first false, throwing where nextProps[fn] is undefined
RECURSIVE every(_, _, _)
every(fns, prev, next) ==
  IF fns = <<>> THEN "true"
  ELSE IF ~hasToString(next[Head(fns)]) THEN "TypeError"
  ELSE IF toString(prev[Head(fns)]) # toString(next[Head(fns)]) THEN "false"
  ELSE every(Tail(fns), prev, next)

\* the comparison both versions of shouldUpdate return
compareProps(prev, next, h) ==
  IF isEqual(omit(prev, functions(prev)), omit(next, functions(next)), h)
  THEN every(functions(prev), prev, next)
  ELSE "false"

\* delete object.mapTypeId, in place
deleteMapTypeId(h, a) == [h EXCEPT ![a].mapTypeId = NoTag]

\* shouldUpdate(prevProps, nextProps): what it returns or throws, and the heap after
shouldUpdate(prev, next, h) ==
  IF prev.options.kind # "ref"
  THEN [result |-> "TypeError", heap |-> h]
  ELSE LET h1 == deleteMapTypeId(h, prev.options.addr)
       IN [result |-> compareProps(prev, next, h1), heap |-> h1]

\* ------------------------------------------------------------------ state
VARIABLES
  heap,        \* the options objects
  prevProps,   \* the gate's first argument
  nextProps,   \* the gate's second argument
  heap0,       \* the heap when the gate was called
  gateResult,  \* "none" before the call, then "true", "false" or "TypeError"
  google,      \* window.google is defined
  scripts,     \* the script elements appended to document.head
  views,       \* the Map instances
  maps,        \* the maps each instance constructed, in order
  calls,       \* the invocations of each instance's onMount, in order
  thrown,      \* the errors raised, by the operation that raised them
  renders      \* renders so far

vars == <<heap, prevProps, nextProps, heap0, gateResult,
          google, scripts, views, maps, calls, thrown, renders>>

gateVars == <<prevProps, nextProps, heap0, gateResult>>
pageVars == <<google, scripts, views, maps, calls, thrown, renders>>

Views == 1 .. NumViews
NoView == [status |-> "init", props |-> defaultProps([options |-> MissingV,
             onMount |-> MissingV, className |-> MissingV]), cleanup |-> [script |-> 0]]

InitPage ==
  /\ google = FALSE
  /\ scripts = <<>>
  /\ views = [v \in Views |-> NoView]
  /\ maps = [v \in Views |-> <<>>]
  /\ calls = [v \in Views |-> <<>>]
  /\ thrown = {}
  /\ renders = 0

\* ------------------------------------------------------------- the page
\* what an effect or a listener may change, passed through the helpers
World == [heap |-> heap, scripts |-> scripts, maps |-> maps,
          calls |-> calls, thrown |-> thrown]

Commit(world) ==
  \E w \in {world} :
    /\ heap' = w.heap
    /\ scripts' = w.scripts
    /\ maps' = w.maps
    /\ calls' = w.calls
    /\ thrown' = w.thrown

NoListener == [view |-> 0]
NoCleanup == [script |-> 0]

\* ref.current: the view's div while it is mounted, null (0) otherwise
refCurrent(v, mounted) == IF mounted THEN v ELSE 0

\* new window.google.maps.Map(div, options) may assign options.mapTypeId
providerAssigns(h, opt, assigns) ==
  IF assigns /\ opt.kind = "ref" /\ h[opt.addr].mapTypeId = NoTag
  THEN [h EXCEPT ![opt.addr].mapTypeId = "roadmap"]
  ELSE h

\* onLoad, the closure of one effect run over ref, options and onMount
onLoad(l, div, g, assigns, w) ==
  IF ~g
  THEN [w EXCEPT !.thrown = @ \cup {[op |-> "onLoad", view |-> l.view]}]
  ELSE LET m == Len(w.maps[l.view]) + 1
           w1 == [w EXCEPT
                    !.maps[l.view] = Append(@, [div |-> div, options |-> l.options,
                                                cb |-> l.onMount]),
                    !.heap = providerAssigns(@, l.options, assigns)]
       IN IF isFunction(l.onMount)
          THEN [w1 EXCEPT !.calls[l.view] = Append(@, [fn |-> l.onMount, arg |-> m])]
          ELSE w1

\* document.createElement(`script`) and document.head.append(script)
appendScript(scr) == Append(scr, [loaded |-> FALSE, listener |-> NoListener])

\* a loader that never registers its listener
addEventListenerNever(scr, s, l) == scr

addEventListener(scr, s, l) == [scr EXCEPT ![s].listener = l]

\* a cleanup that leaves the listener in place
removeEventListenerNever(scr, s, l) == scr

removeEventListener(scr, s, l) ==
  IF scr[s].listener = l THEN [scr EXCEPT ![s].listener = NoListener] ELSE scr

\* an effect without the test of window.google: it runs onLoad at once
useEffectNoCheck(v, props, g, assigns, w) ==
  LET l == [view |-> v, options |-> props.options, onMount |-> props.onMount]
  IN [world |-> onLoad(l, refCurrent(v, TRUE), g, assigns, w),
      cleanup |-> NoCleanup]

\* the effect: load the script and wait for it, or run onLoad at once
useEffect(v, props, g, assigns, w) ==
  LET l == [view |-> v, options |-> props.options, onMount |-> props.onMount]
      s == Len(w.scripts) + 1
  IN IF ~g
     THEN [world |-> [w EXCEPT !.scripts = addEventListener(appendScript(@), s, l)],
           cleanup |-> [script |-> s, listener |-> l]]
     ELSE [world |-> onLoad(l, refCurrent(v, TRUE), g, assigns, w),
           cleanup |-> NoCleanup]

\* the function the effect returned, if it returned one
runCleanup(c, w) ==
  IF c = NoCleanup THEN w
  ELSE [w EXCEPT !.scripts = removeEventListener(@, c.script, c.listener)]

\* every render runs the effect at most once, and it appends at most one script
MaxScripts == MaxRenders

\* useEffect's dependencies [onMount, options], compared by identity
depsChanged(prev, next) ==
  prev.onMount # next.onMount \/ prev.options # next.options

\* the props a parent passes to <Map />
RenderInputs ==
  { [options |-> MissingV, onMount |-> MissingV, className |-> MissingV],
    [options |-> MissingV, onMount |-> MissingV, className |-> StrV("map")],
    [options |-> RefV(2), onMount |-> FnV("map => {...}", "linksA"),
     className |-> MissingV],
    [options |-> RefV(2), onMount |-> FnV("map => {...}", "linksB"),
     className |-> MissingV],
    [options |-> RefV(2), onMount |-> FnV("map => {}", "linksA"),
     className |-> MissingV],
    [options |-> NullV, onMount |-> MissingV, className |-> MissingV] }

\* the options objects as the page creates them: the default, and the example's
InitHeap ==
  [a \in Addr |-> [zoom |-> IF a = 1 THEN 5 ELSE 4, mapTypeId |-> NoTag]]

Init ==
  /\ heap = InitHeap
  /\ prevProps = NoView.props
  /\ nextProps = NoView.props
  /\ heap0 = InitHeap
  /\ gateResult = "idle"
  /\ InitPage

\* the first render of instance v and the effect that follows it
Mount(v, p, assigns) ==
  /\ views[v].status = "init"
  /\ \A u \in Views : u < v => views[u].status # "init"
  /\ renders < MaxRenders
  /\ renders' = renders + 1
  /\ LET props == defaultProps(p)
         e == useEffect(v, props, google, assigns, World)
     IN /\ Commit(e.world)
        /\ views' = [views EXCEPT ![v] = [status |-> "mounted", props |-> props,
                                          cleanup |-> e.cleanup]]
  /\ UNCHANGED <<gateVars, google>>

\* the parent renders again: React.memo asks shouldUpdate, and renders unless
\* it answers true; the effect runs again when a dependency changed
Rerender(v, p, assigns) ==
  /\ views[v].status = "mounted"
  /\ renders < MaxRenders
  /\ renders' = renders + 1
  /\ LET prev == views[v].props
         next == defaultProps(p)
         r == shouldUpdate(prev, next, heap)
         w0 == [World EXCEPT !.heap = r.heap]
     IN CASE r.result = "TypeError" ->
               /\ Commit([w0 EXCEPT !.thrown =
                            @ \cup {[op |-> "shouldUpdate", view |-> v]}])
               /\ UNCHANGED views
          [] r.result = "true" ->
               /\ Commit(w0)
               /\ UNCHANGED views
          [] r.result = "false" /\ ~depsChanged(prev, next) ->
               /\ Commit(w0)
               /\ views' = [views EXCEPT ![v].props = next]
          [] r.result = "false" /\ depsChanged(prev, next) ->
               /\ LET e == useEffect(v, next, google, assigns,
                                     runCleanup(views[v].cleanup, w0))
                  IN /\ Commit(e.world)
                     /\ views' = [views EXCEPT ![v].props = next,
                                               ![v].cleanup = e.cleanup]
  /\ UNCHANGED <<gateVars, google>>

\* instance v is removed: React runs the cleanup of its effect
Unmount(v) ==
  /\ views[v].status = "mounted"
  /\ Commit(runCleanup(views[v].cleanup, World))
  /\ views' = [views EXCEPT ![v] = [NoView EXCEPT !.status =
                              IF google THEN "unmounted" ELSE "unmountedEarly"]]
  /\ UNCHANGED <<gateVars, google, renders>>

\* script s has run, defining window.google, and its load event fires
ScriptLoad(s, assigns) ==
  /\ s \in DOMAIN scripts
  /\ ~scripts[s].loaded
  /\ google' = TRUE
  /\ LET l == scripts[s].listener
         w0 == [World EXCEPT !.scripts[s].loaded = TRUE]
     IN IF l = NoListener
        THEN Commit(w0)
        ELSE Commit(onLoad(l, refCurrent(l.view, views[l.view].status = "mounted"),
                           TRUE, assigns, w0))
  /\ UNCHANGED <<gateVars, views, renders>>

Next ==
  \/ \E v \in Views, p \in RenderInputs, a \in BOOLEAN : Mount(v, p, a)
  \/ \E v \in Views, p \in RenderInputs, a \in BOOLEAN : Rerender(v, p, a)
  \/ \E v \in Views : Unmount(v)
  \/ \E s \in 1 .. MaxScripts, a \in BOOLEAN : ScriptLoad(s, a)

Spec == Init /\ [][Next]_vars

\* every appended script eventually fires its load event
SpecLive == Spec /\ \A s \in 1 .. MaxScripts : WF_vars(\E a \in BOOLEAN : ScriptLoad(s, a))

\* ------------------------------------------------------- the gate, alone
\* React.memo hands the gate two props objects with the defaults filled in
InitGate ==
  /\ heap \in Heaps
  /\ prevProps \in {defaultProps(p) : p \in AllProps}
  /\ nextProps \in {defaultProps(p) : p \in AllProps}
  /\ heap0 = heap
  /\ gateResult = "none"
  /\ InitPage

CallShouldUpdate ==
  /\ gateResult = "none"
  /\ LET r == shouldUpdate(prevProps, nextProps, heap)
     IN /\ gateResult' = r.result
        /\ heap' = r.heap
  /\ UNCHANGED <<prevProps, nextProps, heap0, pageVars>>

NextGate == CallShouldUpdate

SpecGate == InitGate /\ [][NextGate]_vars

\* ------------------------------------------------- the claims on the gate
Called == gateResult # "none"
nonCallable(p) == omit(p, functions(p))
sameText(a, b) == hasToString(a) /\ hasToString(b) /\ toString(a) = toString(b)
BoolText(b) == IF b THEN "true" ELSE "false"

\* C1: shouldUpdate(prev, next) returns exactly the AND of (a) deep equality of
\* the non-callable properties of prev and next and (b) equality of the source
\* text of prev[name] and next[name] for every callable name of prev (stated
\* here for the props whose options is an object and carries no type tag, where
\* neither C9's error on a null options nor the deletion C3 is about takes part).
C1_ResultIsConjunction ==
  (/\ Called
   /\ prevProps.options.kind = "ref"
   /\ heap0[prevProps.options.addr].mapTypeId = NoTag) =>
    gateResult = BoolText(
      /\ isEqual(nonCallable(prevProps), nonCallable(nextProps), heap0)
      /\ \A n \in Range(functions(prevProps)) : sameText(prevProps[n], nextProps[n]))

\* C2: when prev and next have different sets of callable property names,
\* shouldUpdate returns false and raises no error (stated here for the props
\* whose options is an object, where C9's other error cannot be the cause).
C2_CallableNamesDifferIsMismatch ==
  (/\ Called
   /\ prevProps.options.kind = "ref"
   /\ Range(functions(prevProps)) # Range(functions(nextProps)))
    => gateResult = "false"

\* prev and next differ only in options.mapTypeId, which prev.options has
OnlyTypeTagDiffers ==
  /\ prevProps.options.kind = "ref"
  /\ nextProps.options.kind = "ref"
  /\ prevProps.onMount = nextProps.onMount
  /\ prevProps.className = nextProps.className
  /\ heap0[prevProps.options.addr].zoom = heap0[nextProps.options.addr].zoom
  /\ heap0[prevProps.options.addr].mapTypeId # NoTag
  /\ heap0[prevProps.options.addr].mapTypeId # heap0[nextProps.options.addr].mapTypeId

\* C3: if the only difference between prev and next is the value or presence of
\* options.mapTypeId, written into prev.options by the provider, shouldUpdate
\* returns true.
C3_TypeTagIsExcluded ==
  (Called /\ OnlyTypeTagDiffers) => gateResult = "true"

\* C4: reflexivity: shouldUpdate(P, P) returns true for any PropertySet P.
C4_Reflexive ==
  (Called /\ prevProps = nextProps) => gateResult = "true"

\* C8: the call changes nothing but options.mapTypeId of prev: every other
\* field of prev and every field of next, next.options included, is as before.
C8_OnlyPrevTypeTagChanges ==
  Called =>
    /\ \A a \in Addr :
         /\ heap[a].zoom = heap0[a].zoom
         /\ (prevProps.options # RefV(a)) => heap[a] = heap0[a]
    /\ nextProps.options.kind = "ref"
         => heap[nextProps.options.addr] = heap0[nextProps.options.addr]

\* C9: shouldUpdate never throws and always resolves to a boolean.
C9_NeverThrows ==
  Called => gateResult \in {"true", "false"}

\* ------------------------------------------------- the claims on the page
\* C5: across any interleaving of mounts the external resource load (creating
\* and appending the script element) is started at most once.
C5_LoadStartedAtMostOnce == Len(scripts) <= 1

\* C6: for a mounted view onMount is invoked exactly once, whatever the load
\* completion and the re-renders.
C6_OnMountExactlyOnce == \A v \in Views : Len(calls[v]) <= 1

\* C6, amended: onMount is invoked once for each map the view constructs: no
\* map is constructed, and no onLoad runs, before window.google is defined;
\* every invocation passes a map of that view to the callable onMount its
\* onLoad captured; no map is passed twice; and every map whose onLoad
\* captured a callable onMount has been passed to it.
C6_OnMountOncePerMap ==
  \A v \in Views :
    /\ maps[v] # <<>> => google
    /\ [op |-> "onLoad", view |-> v] \notin thrown
    /\ \A i \in DOMAIN calls[v] :
         /\ calls[v][i].arg \in DOMAIN maps[v]
         /\ isFunction(calls[v][i].fn)
         /\ maps[v][calls[v][i].arg].cb = calls[v][i].fn
    /\ \A i, j \in DOMAIN calls[v] : calls[v][i].arg = calls[v][j].arg => i = j
    /\ \A m \in DOMAIN maps[v] :
         isFunction(maps[v][m].cb) => \E i \in DOMAIN calls[v] : calls[v][i].arg = m

\* a view whose onMount ran twice, each time with the map just constructed
C6_Witness ==
  \E v \in Views :
    /\ views[v].status = "mounted"
    /\ Len(calls[v]) = 2
    /\ calls[v][1].arg # calls[v][2].arg

\* C7: a view unmounted before the external resource finished loading has, in
\* every later state, no onMount invocation and no map, raised no error, and
\* has no load listener left on any script element.
C7_UnmountBeforeLoadIsSafe ==
  \A v \in Views :
    views[v].status = "unmountedEarly" =>
      /\ calls[v] = <<>>
      /\ maps[v] = <<>>
      /\ [op |-> "onLoad", view |-> v] \notin thrown
      /\ \A s \in DOMAIN scripts :
           scripts[s].listener = NoListener \/ scripts[s].listener.view # v

\* a view unmounted before the load, and every script appended has since loaded
C7_Witness ==
  /\ \E v \in Views : views[v].status = "unmountedEarly"
  /\ scripts # <<>>
  /\ \A s \in DOMAIN scripts : scripts[s].loaded

\* the view has its map, and its callable onMount has been called
Initialised(v) ==
  /\ maps[v] # <<>>
  /\ isFunction(views[v].props.onMount)
       => \E i \in DOMAIN calls[v] : calls[v][i].fn = views[v].props.onMount

\* C10: if every appended script eventually fires its load event, every view
\* that is mounted and never unmounted eventually has its map constructed and
\* its callable onMount called, also when the effect ran again before the load.
C10_MountedEventuallyInitialised ==
  \A v \in Views :
    (views[v].status = "mounted")
      ~> (views[v].status # "mounted" \/ Initialised(v))

\* the only view ran its effect twice before the load, and was then initialised
C10_Witness ==
  \E v \in Views :
    /\ views[v].status = "mounted"
    /\ \A u \in Views \ {v} : views[u].status = "init"
    /\ views[v].cleanup # NoCleanup
    /\ views[v].cleanup.script = 2
    /\ isFunction(views[v].props.onMount)
    /\ Initialised(v)

====
